---- MODULE Spec2Model ----
(***************************************************************************)
(* Model of the Direct3D11 "hello triangle" sample: the window registry    *)
(* and message dispatch of src/src/window.rs, the renderer of              *)
(* src/src/d3d11.rs and src/src/d3dutil.rs, and the start-up pipeline and  *)
(* resize handler of src/src/main.rs.                                      *)
(*                                                                         *)
(* The program has one thread.  Its call stack is the variable `stack`:    *)
(* stack[1] is main, and every nested activation (Window::new, a window    *)
(* procedure entered re-entrantly from the OS, a handler closure, a        *)
(* renderer method) is a frame above it.  Only the top frame runs.         *)
(*                                                                         *)
(* The OS is the environment: it allocates handles, sends WM_NCCREATE from *)
(* inside CreateWindowExW, WM_SIZE/WM_PAINT from inside ShowWindow and     *)
(* UpdateWindow, WM_DESTROY and WM_NCDESTROY from inside                   *)
(* DefWindowProcW(WM_CLOSE), and decides whether a native call fails.      *)
(*                                                                         *)
(* Spec is the program of main.rs.  window.rs is a library with a public   *)
(* API, and what it promises for several windows, for windows whose owner  *)
(* dropped them and for builders that lack a field cannot arise from main, *)
(* which builds one complete window and keeps it.  LibSpec is the library  *)
(* under any client of that API: the client initialises the class, builds  *)
(* windows, registers handlers, drops windows and runs the message loop.   *)
(***************************************************************************)
EXTENDS Integers, Sequences, FiniteSets, TLC

(***************************************************************************)
(* Bounds of the model.                                                    *)
(***************************************************************************)
MaxMsgs == 2        \* messages GetMessageW takes from the queue in main.rs
MaxDim == 2         \* client widths and heights are 1..MaxDim
MaxWindows == 2     \* WindowBuilder::build calls a client of the library makes
MaxHandlers == 2    \* Window::add_handler calls a client of the library makes
MaxClientMsgs == 1  \* messages GetMessageW takes from the queue of such a client

VARIABLES
    status,            \* "running" | "panicked" | "exited"
    stack,             \* call stack of the only thread, main at index 1
    ret,               \* value returned by the frame that returned last
    wndClass,          \* [set, registered]: WND_CLASS and the OS window class
    window_instances,  \* WndClass.window_instances: hwnd -> registry entry
    wins,              \* Window objects ever created: obj -> [hwnd, owners, callbacks]
    mainWin,           \* the object main holds in `window` (0: not built yet)
    osWindows,         \* handles of the windows that exist in the OS
    quitPosted,        \* PostQuitMessage has been called
    regReaders,        \* read guards held on window_instances
    regWriter,         \* the write guard of window_instances is held
    cbLocked,          \* objects whose callbacks write guard is held
    d3dReaders,        \* read guards held on the renderer's RwLock
    d3dWriter,         \* the write guard of the renderer's RwLock is held
    d3d,               \* the D3d11Renderer and what it has told the GPU
    log,               \* native calls made since start-up or the last GetMessageW
    msgCount,          \* messages taken from the queue so far
    builds,            \* WindowBuilder::build calls so far
    probes,            \* Window::add_handler calls of a client of the library
    regAtBuild         \* window_instances when the build in progress was called

vars == <<status, stack, ret, wndClass, window_instances, wins, mainWin, osWindows,
          quitPosted, regReaders, regWriter, cbLocked, d3dReaders, d3dWriter, d3d,
          log, msgCount, builds, probes, regAtBuild>>

(***************************************************************************)
(* Values.                                                                 *)
(***************************************************************************)
Hwnds == 101..(100 + MaxWindows)
NoHwnd == 0
Objs == 1..MaxWindows
NoObj == 0
Dims == 1..MaxDim
NoSize == [width |-> 0, height |-> 0]
None == [some |-> FALSE, gen |-> 0]

\* LPARAM of WM_SIZE as the OS builds it: MAKELPARAM(width, height)
MAKELPARAM(lo, hi) == lo + 65536 * hi
LParams == {MAKELPARAM(w, h) : w \in Dims, h \in Dims}

\* the WM_SIZE LPARAMs the OS sends: a client's handlers, which are only
\* seen to run, do not read them, and one value stands for all
SizeLParams == IF stack[1].fn = "main" THEN LParams ELSE {MAKELPARAM(1, 1)}

Frame(fn, pc) ==
    [fn |-> fn, pc |-> pc, hwnd |-> NoHwnd, msg |-> "", lp |-> 0, obj |-> NoObj,
     idx |-> 0, mark |-> 0, size |-> NoSize, rd |-> FALSE, sends |-> << >>]

Top == stack[Len(stack)]
\* the program that runs: "main" (main.rs) or "client" (any client of window.rs)
Program == stack[1].fn
Running(fn, pc) == status = "running" /\ Top.fn = fn /\ Top.pc = pc

SetTop(f) == [stack EXCEPT ![Len(stack)] = f]
Goto(pc) == SetTop([Top EXCEPT !.pc = pc])
Pop == SubSeq(stack, 1, Len(stack) - 1)
\* the top frame moves to pc and calls frame f
CallFrom(pc, f) == Append(Goto(pc), f)


\* what a frame hands to its caller: a Result<Arc<Window>, String> or an LRESULT
RetVal(ok, hwnd, obj, lresult) ==
    [ok |-> ok, hwnd |-> hwnd, obj |-> obj, lresult |-> lresult]
NoRet == RetVal(TRUE, NoHwnd, NoObj, 0)
Err == RetVal(FALSE, NoHwnd, NoObj, 0)
LRESULT(n) == RetVal(TRUE, NoHwnd, NoObj, n)

(***************************************************************************)
(* Native calls.  A function's straight-line run of native calls is a plan:*)
(* a sequence of calls, each with what the code does with its result:      *)
(*   "panic"    unwrap / expect / panic! on failure                        *)
(*   "ignore"   the result is discarded (let _ = ..., or an unused value)  *)
(*   "fallback" failure selects another path of the function               *)
(*   "void"     the call returns nothing                                   *)
(* The OS picks at most one call k of the plan to fail (k = 0: none); a    *)
(* call whose `ok` is already FALSE is a failure the plan was built for.   *)
(***************************************************************************)
Call(api, onErr) == [api |-> api, onErr |-> onErr, ok |-> TRUE, n |-> 0]
CallN(api, onErr, n) == [api |-> api, onErr |-> onErr, ok |-> TRUE, n |-> n]
Failed(api, onErr) == [api |-> api, onErr |-> onErr, ok |-> FALSE, n |-> 0]

CanFail(plan, k) ==
    k = 0 \/ (k \in DOMAIN plan /\ plan[k].ok /\ plan[k].onErr \in {"panic", "ignore"})
Fails(plan, k, i) == ~plan[i].ok \/ i = k
Stops(plan, k) == {i \in DOMAIN plan : Fails(plan, k, i) /\ plan[i].onErr = "panic"}
Panics(plan, k) == Stops(plan, k) # {}
\* the calls that are made: all of them, or those up to the first that panics
Made(plan, k) ==
    IF Panics(plan, k)
    THEN SubSeq(plan, 1, CHOOSE i \in Stops(plan, k) : \A j \in Stops(plan, k) : i <= j)
    ELSE plan
Entries(plan, k) ==
    [i \in DOMAIN Made(plan, k) |->
        [api |-> plan[i].api, ok |-> ~Fails(plan, k, i), n |-> plan[i].n]]
Succeeded(plan, k, api) ==
    \E i \in DOMAIN Made(plan, k) : plan[i].api = api /\ ~Fails(plan, k, i)
StatusAfter(plan, k) == IF Panics(plan, k) THEN "panicked" ELSE "running"

(***************************************************************************)
(* Reference counts.  A Window lives while an Arc to it exists: the        *)
(* owner's, one upgraded by a dispatch in progress, or a registry entry    *)
(* that is an owning reference.                                            *)
(***************************************************************************)
\* the registry holds the Arc itself: an owning reference
OwningRegistryEntry(o) == [obj |-> o, strong |-> TRUE]

\* window.rs:87  Arc::downgrade(&window_instance)
RegistryEntry(o) == [obj |-> o, strong |-> FALSE]
\* every window is filed under one key
SharedRegistryKey(hwnd) == NoHwnd

\* window.rs:87  the key is hwnd.0
RegistryKey(hwnd) == hwnd

StrongCount(o) ==
    wins[o].owners
    + Cardinality({i \in DOMAIN stack : stack[i].fn = "wnd_proc" /\ stack[i].obj = o})
    + Cardinality({h \in DOMAIN window_instances :
                      window_instances[h].obj = o /\ window_instances[h].strong})
Alive(o) == StrongCount(o) > 0

Insert(map, k, e) == [x \in DOMAIN map \cup {k} |-> IF x = k THEN e ELSE map[x]]
Remove(map, k) == [x \in DOMAIN map \ {k} |-> map[x]]
EmptyMap == [x \in {} |-> RegistryEntry(NoObj)]

Init ==
    /\ status = "running"
    /\ stack \in {<<Frame("main", "init")>>, <<Frame("client", "init")>>}
    /\ ret = NoRet
    /\ wndClass = [set |-> FALSE, registered |-> FALSE]
    /\ window_instances = EmptyMap
    /\ wins = << >>
    /\ mainWin = NoObj
    /\ osWindows = {}
    /\ quitPosted = FALSE
    /\ regReaders = 0
    /\ regWriter = FALSE
    /\ cbLocked = {}
    /\ d3dReaders = 0
    /\ d3dWriter = FALSE
    /\ d3d = [device |-> FALSE, swap_chain |-> FALSE, rtv |-> None, dsv |-> None,
              bufGen |-> 0, bbSize |-> NoSize, dsSize |-> NoSize, vpSize |-> NoSize,
              omBound |-> FALSE, pipeline |-> FALSE]
    /\ log = << >>
    /\ msgCount = 0
    /\ builds = 0
    /\ probes = 0
    /\ regAtBuild = EmptyMap

locks == <<regReaders, regWriter, cbLocked, d3dReaders, d3dWriter>>
client == <<mainWin, builds, probes, regAtBuild>>
registry == <<window_instances, wins>>
os == <<osWindows, quitPosted>>

(***************************************************************************)
(* WndClass::init  (window.rs:285-309)                                     *)
(***************************************************************************)
WndClass_init_plan ==
    << Call("GetModuleHandleW", "panic"), Call("RegisterClassW", "ignore") >>

WndClass_init ==
    /\ status = "running"
    /\ Top.fn \in {"main", "client"}
    /\ Top.pc = "init"
    /\ \E k \in 0..Len(WndClass_init_plan) :
        /\ CanFail(WndClass_init_plan, k)
        /\ log' = log \o Entries(WndClass_init_plan, k)
        /\ status' = StatusAfter(WndClass_init_plan, k)
        /\ IF Panics(WndClass_init_plan, k)
           THEN UNCHANGED <<stack, wndClass>>
           ELSE /\ wndClass' = [set |-> TRUE,
                                registered |-> Succeeded(WndClass_init_plan, k, "RegisterClassW")]
                /\ stack' = Goto("build")
    /\ UNCHANGED <<ret, registry, os, locks, client, d3d, msgCount>>

(***************************************************************************)
(* WindowBuilder::build  (window.rs:242-265).  main's call (main.rs:17-21) *)
(* sets the class name, the window name and the HINSTANCE.                 *)
(***************************************************************************)
\* window.rs:243-245
BuilderComplete(class_name, window_name, h_instance) ==
    class_name /\ window_name /\ h_instance

WindowBuilder_build ==
    /\ status = "running"
    /\ Top.fn \in {"main", "client"}
    /\ Top.pc = "build"
    /\ \E class_name \in BOOLEAN, window_name \in BOOLEAN, h_instance \in BOOLEAN :
        /\ (Program = "main") => (class_name /\ window_name /\ h_instance)
        /\ (Program = "client") => builds < MaxWindows
        /\ builds' = builds + 1
        /\ regAtBuild' = window_instances
        /\ IF BuilderComplete(class_name, window_name, h_instance)
           THEN /\ stack' = CallFrom("build_ret", Frame("new", "CreateWindowExW"))
                /\ ret' = ret
           ELSE /\ stack' = Goto("build_ret")
                /\ ret' = Err
    /\ UNCHANGED <<status, wndClass, registry, os, locks, mainWin, probes, d3d, log,
                   msgCount>>

\* main.rs:21-23  .build().unwrap(), then D3d11Renderer::new(.., &window)
main_build_unwrap ==
    /\ Running("main", "build_ret")
    /\ IF ret.ok
       THEN /\ mainWin' = ret.obj
            /\ stack' = CallFrom("get_position", [Frame("D3dNew", "create_device_context")
                                                    EXCEPT !.obj = ret.obj])
            /\ status' = status
       ELSE /\ status' = "panicked"
            /\ UNCHANGED <<mainWin, stack>>
    /\ ret' = NoRet
    /\ regAtBuild' = EmptyMap
    /\ UNCHANGED <<wndClass, registry, os, locks, builds, probes, d3d, log, msgCount>>

(***************************************************************************)
(* Window::new  (window.rs:51-90)                                          *)
(***************************************************************************)
MsgFrame(hwnd, msg, lp) ==
    [Frame("wnd_proc", "entry") EXCEPT !.hwnd = hwnd, !.msg = msg, !.lp = lp,
                                       !.mark = Len(log)]

\* CreateWindowExW: fails at once (always so for an unregistered class), or
\* creates the OS window and sends it WM_NCCREATE.  A handle is opaque: the
\* program only compares handles for equality and uses them as keys, so
\* which unused handle the OS hands out changes nothing but the names, and
\* the model takes the least.
Window_new_CreateWindowExW ==
    /\ Running("new", "CreateWindowExW")
    /\ \/ /\ log' = Append(log, [api |-> "CreateWindowExW", ok |-> FALSE, n |-> 0])
          /\ stack' = Pop
          /\ ret' = Err
          /\ UNCHANGED osWindows
       \/ /\ wndClass.registered
          /\ \E h \in Hwnds \ osWindows :
              /\ \A g \in Hwnds \ osWindows : h <= g
              /\ osWindows' = osWindows \cup {h}
              /\ stack' = Append(SetTop([Top EXCEPT !.pc = "created", !.hwnd = h]),
                                 MsgFrame(h, "WM_NCCREATE", 0))
          /\ UNCHANGED <<log, ret>>
    /\ UNCHANGED <<status, wndClass, registry, quitPosted, locks, client, d3d, msgCount>>

\* WM_NCCREATE answered FALSE: the OS sends WM_NCDESTROY and the call fails
Window_new_created ==
    /\ Running("new", "created")
    /\ IF ret.lresult = 1
       THEN /\ log' = Append(log, [api |-> "CreateWindowExW", ok |-> TRUE, n |-> 0])
            /\ stack' = Goto("insert")
       ELSE /\ log' = log
            /\ stack' = CallFrom("failed", MsgFrame(Top.hwnd, "WM_NCDESTROY", 0))
    /\ UNCHANGED <<status, ret, wndClass, registry, os, locks, client, d3d, msgCount>>

\* window.rs:80-82
Window_new_failed ==
    /\ Running("new", "failed")
    /\ osWindows' = osWindows \ {Top.hwnd}
    /\ log' = Append(log, [api |-> "CreateWindowExW", ok |-> FALSE, n |-> 0])
    /\ stack' = Pop
    /\ ret' = Err
    /\ UNCHANGED <<status, wndClass, registry, quitPosted, locks, client, d3d, msgCount>>

\* window.rs:86-89: the write guard is a temporary of the insert statement
Window_new_insert ==
    /\ Running("new", "insert")
    /\ regReaders = 0 /\ ~regWriter
    /\ LET o == Len(wins) + 1
       IN /\ wins' = Append(wins, [hwnd |-> Top.hwnd, owners |-> 1, callbacks |-> << >>])
          /\ window_instances' =
                Insert(window_instances, RegistryKey(Top.hwnd), RegistryEntry(o))
          /\ ret' = RetVal(TRUE, Top.hwnd, o, 0)
    /\ stack' = Pop
    /\ UNCHANGED <<status, wndClass, os, locks, client, d3d, log, msgCount>>

(***************************************************************************)
(* A client of the library, between WndClass::init and the message loop.   *)
(***************************************************************************)
\* the client takes the Result of build: an Arc<Window> it owns, or an Err
Client_build_ret ==
    /\ Running("client", "build_ret")
    /\ stack' = Goto("build")
    /\ ret' = NoRet
    /\ regAtBuild' = EmptyMap
    /\ UNCHANGED <<status, wndClass, registry, os, locks, mainWin, builds, probes, d3d,
                   log, msgCount>>

\* the owner of a window drops its Arc<Window>
Client_drop ==
    /\ Running("client", "build")
    /\ \E o \in DOMAIN wins :
        /\ wins[o].owners > 0
        /\ wins' = [wins EXCEPT ![o].owners = @ - 1]
    /\ UNCHANGED <<status, stack, ret, wndClass, window_instances, os, locks, client,
                   d3d, log, msgCount>>

HandlerMsgs == {"WM_SIZE", "WM_DESTROY"}

\* Window::add_handler  (window.rs:115-118)
add_handler(o, handler) ==
    /\ o \notin cbLocked
    /\ wins' = [wins EXCEPT ![o].callbacks = Append(@, handler)]

Client_add_handler ==
    /\ Running("client", "build")
    /\ probes < MaxHandlers
    /\ \E o \in DOMAIN wins, m \in HandlerMsgs :
        /\ wins[o].owners > 0
        /\ add_handler(o, [msg |-> m, kind |-> "probe", id |-> probes + 1])
    /\ probes' = probes + 1
    /\ UNCHANGED <<status, stack, ret, wndClass, window_instances, os, locks, mainWin,
                   builds, regAtBuild, d3d, log, msgCount>>

\* the client calls WndClass::msg_loop
Client_msg_loop ==
    /\ Running("client", "build")
    /\ stack' = Goto("msg_loop")
    /\ UNCHANGED <<status, ret, wndClass, registry, os, locks, client, d3d, log, msgCount>>

(***************************************************************************)
(* WndClass::wnd_proc  (window.rs:322-372)                                 *)
(***************************************************************************)
\* every wnd_proc frame returns through here: the read guard `map` is a local
\* of the match arm and the upgraded Arc a local of the if-let
WndReturn(lresult) ==
    /\ stack' = Pop
    /\ ret' = LRESULT(lresult)
    /\ regReaders' = regReaders - (IF Top.rd THEN 1 ELSE 0)

\* window.rs:329-334
WndClass_wnd_proc_WM_NCCREATE ==
    /\ Running("wnd_proc", "entry")
    /\ Top.msg = "WM_NCCREATE"
    /\ stack' = Goto("def")
    /\ UNCHANGED <<status, ret, wndClass, registry, os, locks, client, d3d, log, msgCount>>

\* the message goes to a live registered window, whatever its handle
LookupAnyWindow(hwnd) ==
    LET live == {h \in DOMAIN window_instances : Alive(window_instances[h].obj)}
    IN IF live # {}
       THEN window_instances[CHOOSE h \in live : \A g \in live : h <= g].obj
       ELSE NoObj

\* map.get(&hwnd) and Weak::upgrade: the object a message for hwnd is routed to
Lookup(hwnd) ==
    IF hwnd \in DOMAIN window_instances /\ Alive(window_instances[hwnd].obj)
    THEN window_instances[hwnd].obj
    ELSE NoObj

\* window.rs:335-344 (WM_DESTROY) and 360-370 (any other message): the same code
WndClass_wnd_proc_route ==
    /\ Running("wnd_proc", "entry")
    /\ Top.msg \notin {"WM_NCCREATE", "WM_NCDESTROY"}
    /\ ~regWriter
    /\ regReaders' = regReaders + 1
    /\ LET o == Lookup(Top.hwnd)
       IN stack' = SetTop([Top EXCEPT !.rd = TRUE, !.obj = o,
                                      !.pc = IF o # NoObj THEN "W_lock" ELSE "def"])
    /\ UNCHANGED <<status, ret, wndClass, registry, os, regWriter, cbLocked, d3dReaders,
                   d3dWriter, client, d3d, log, msgCount>>

\* window.rs:352  if map_to_remove.is_empty()
LastWindowGone(map) == DOMAIN map = {}

\* window.rs:345  the WM_NCDESTROY arm of the match
WndClass_wnd_proc_WM_NCDESTROY ==
    /\ Running("wnd_proc", "entry")
    /\ Top.msg = "WM_NCDESTROY"
    /\ stack' = Goto("remove")
    /\ UNCHANGED <<status, ret, wndClass, registry, os, locks, client, d3d, log, msgCount>>

\* window.rs:346-358: write() waits for every read guard, the thread's own
\* included; the guard is a local of the arm
WndClass_wnd_proc_remove ==
    /\ Running("wnd_proc", "remove")
    /\ regReaders = 0 /\ ~regWriter
    /\ window_instances' = Remove(window_instances, RegistryKey(Top.hwnd))
    /\ IF LastWindowGone(window_instances')
       THEN /\ quitPosted' = TRUE
            /\ log' = Append(log, [api |-> "PostQuitMessage", ok |-> TRUE, n |-> 0])
       ELSE UNCHANGED <<quitPosted, log>>
    /\ WndReturn(0)
    /\ UNCHANGED <<status, wndClass, wins, osWindows, regWriter, cbLocked, d3dReaders,
                   d3dWriter, client, d3d, msgCount>>

(***************************************************************************)
(* Window::wnd_proc  (window.rs:120-147)                                   *)
(***************************************************************************)
\* window.rs:125  self.callbacks.write().unwrap()
Window_wnd_proc_lock ==
    /\ Running("wnd_proc", "W_lock")
    /\ Top.obj \notin cbLocked
    /\ cbLocked' = cbLocked \cup {Top.obj}
    /\ stack' = SetTop([Top EXCEPT !.pc = "W_iter", !.idx = 1])
    /\ UNCHANGED <<status, ret, wndClass, registry, os, regReaders, regWriter, d3dReaders,
                   d3dWriter, client, d3d, log, msgCount>>

\* the handlers are visited from the one added last to the one added first
HandlerAtReversed(cbs, k) == cbs[Len(cbs) + 1 - k]

\* window.rs:125  iter_mut(): the k-th handler visited is the k-th one added
HandlerAt(cbs, k) == cbs[k]

\* a handler runs for the messages it was not registered for
HandlerMismatches(handler, msg) == handler.msg # msg

\* window.rs:126
HandlerMatches(handler, msg) == handler.msg = msg

HandlerFrame(handler, f) ==
    [Frame(IF handler.kind = "resize" THEN "resize_handler" ELSE "probe", "start")
        EXCEPT !.hwnd = f.hwnd, !.msg = f.msg, !.lp = f.lp, !.obj = f.obj,
               !.idx = handler.id, !.mark = Len(log)]

\* window.rs:125-129: one turn of the for loop, or its end, where the guard drops
Window_wnd_proc_iter ==
    /\ Running("wnd_proc", "W_iter")
    /\ LET cbs == wins[Top.obj].callbacks
       IN IF Top.idx <= Len(cbs)
          THEN /\ stack' = IF HandlerMatches(HandlerAt(cbs, Top.idx), Top.msg)
                           THEN Append(SetTop([Top EXCEPT !.idx = @ + 1]),
                                       HandlerFrame(HandlerAt(cbs, Top.idx), Top))
                           ELSE SetTop([Top EXCEPT !.idx = @ + 1])
               /\ UNCHANGED cbLocked
          ELSE /\ stack' = Goto("W_match")
               /\ cbLocked' = cbLocked \ {Top.obj}
    /\ UNCHANGED <<status, ret, wndClass, registry, os, regReaders, regWriter, d3dReaders,
                   d3dWriter, client, d3d, log, msgCount>>

\* window.rs:130-146
Window_wnd_proc_match ==
    /\ Running("wnd_proc", "W_match")
    /\ CASE Top.msg = "WM_PAINT" ->
              /\ WndReturn(0)
              /\ UNCHANGED <<status, quitPosted, log>>
         [] Top.msg = "WM_DESTROY" ->
              /\ quitPosted' = TRUE
              /\ log' = Append(log, [api |-> "PostQuitMessage", ok |-> TRUE, n |-> 0])
              /\ status' = "panicked"
              /\ UNCHANGED <<stack, ret, regReaders>>
         [] OTHER ->
              /\ stack' = Goto("def")
              /\ UNCHANGED <<status, quitPosted, log, ret, regReaders>>
    /\ UNCHANGED <<wndClass, registry, osWindows, regWriter, cbLocked, d3dReaders,
                   d3dWriter, client, d3d, msgCount>>

\* a handler the client registered: it only leaves its mark
probe_handler ==
    /\ Running("probe", "start")
    /\ log' = Append(log, [api |-> "probe", ok |-> TRUE, n |-> Top.idx])
    /\ stack' = Pop
    /\ UNCHANGED <<status, ret, wndClass, registry, os, locks, client, d3d, msgCount>>

(***************************************************************************)
(* DefWindowProcW, the OS's default processing: WM_CLOSE destroys the      *)
(* window, which sends it WM_DESTROY and then WM_NCDESTROY; WM_SYSCOMMAND  *)
(* may resize or close it; WM_NCCREATE may be refused.                     *)
(***************************************************************************)
Send(msg, lp) == [msg |-> msg, lp |-> lp]

DefSends(msg) ==
    CASE msg = "WM_CLOSE" -> { << Send("WM_DESTROY", 0), Send("WM_NCDESTROY", 0) >> }
      [] msg = "WM_SYSCOMMAND" ->
            { << >>, << Send("WM_CLOSE", 0) >> }
            \cup { << Send("WM_SIZE", lp) >> : lp \in SizeLParams }
      [] OTHER -> { << >> }

DefWindowProcW ==
    /\ Running("wnd_proc", "def")
    /\ \E sends \in DefSends(Top.msg) :
        stack' = SetTop([Top EXCEPT !.pc = "def_send", !.sends = sends])
    /\ UNCHANGED <<status, ret, wndClass, registry, os, locks, client, d3d, log, msgCount>>

DefWindowProcW_send ==
    /\ Running("wnd_proc", "def_send")
    /\ IF Top.sends # << >>
       THEN /\ stack' = Append(SetTop([Top EXCEPT !.sends = Tail(@)]),
                               MsgFrame(Top.hwnd, Head(Top.sends).msg, Head(Top.sends).lp))
            /\ UNCHANGED <<ret, regReaders, osWindows>>
       ELSE /\ \E r \in {0, 1} :
                 /\ (Top.msg # "WM_NCCREATE") => r = 0
                 /\ WndReturn(r)
            /\ osWindows' = IF Top.msg = "WM_CLOSE" THEN osWindows \ {Top.hwnd}
                            ELSE osWindows
    /\ UNCHANGED <<status, wndClass, registry, quitPosted, regWriter, cbLocked, d3dReaders,
                   d3dWriter, client, d3d, log, msgCount>>

(***************************************************************************)
(* D3d11Renderer  (d3d11.rs)                                               *)
(***************************************************************************)
Size(w, h) == [width |-> w, height |-> h]
Some(gen) == [some |-> TRUE, gen |-> gen]

\* d3d11.rs:48-71
create_device_context_plan == << Call("D3D11CreateDevice", "panic") >>

D3d11Renderer_create_device_context ==
    /\ Running("D3dNew", "create_device_context")
    /\ \E k \in 0..Len(create_device_context_plan) :
        /\ CanFail(create_device_context_plan, k)
        /\ log' = log \o Entries(create_device_context_plan, k)
        /\ status' = StatusAfter(create_device_context_plan, k)
        /\ IF Panics(create_device_context_plan, k)
           THEN UNCHANGED <<stack, d3d>>
           ELSE /\ d3d' = [d3d EXCEPT !.device = TRUE]
                /\ stack' = Goto("get_position_size")
    /\ UNCHANGED <<ret, wndClass, registry, os, locks, client, msgCount>>

\* d3d11.rs:33-34 with Window::get_position and Window::get_size (window.rs:99-113)
get_position_size_plan == << Call("GetWindowRect", "panic"), Call("GetClientRect", "panic") >>

D3d11Renderer_new_get_position_size ==
    /\ Running("D3dNew", "get_position_size")
    /\ \E k \in 0..Len(get_position_size_plan), w \in Dims, h \in Dims :
        /\ CanFail(get_position_size_plan, k)
        /\ log' = log \o Entries(get_position_size_plan, k)
        /\ status' = StatusAfter(get_position_size_plan, k)
        /\ IF Panics(get_position_size_plan, k)
           THEN /\ w = 1 /\ h = 1
                /\ UNCHANGED stack
           ELSE stack' = SetTop([Top EXCEPT !.pc = "create_swap_chain", !.size = Size(w, h)])
    /\ UNCHANGED <<ret, wndClass, registry, os, locks, client, d3d, msgCount>>

\* d3d11.rs:73-115
create_swap_chain_plan ==
    << Call("cast<IDXGIDevice>", "panic"), Call("GetAdapter", "panic"),
       Call("GetParent<IDXGIFactory2>", "panic"), Call("CreateSwapChainForHwnd", "panic") >>

D3d11Renderer_create_swap_chain ==
    /\ Running("D3dNew", "create_swap_chain")
    /\ \E k \in 0..Len(create_swap_chain_plan) :
        /\ CanFail(create_swap_chain_plan, k)
        /\ log' = log \o Entries(create_swap_chain_plan, k)
        /\ status' = StatusAfter(create_swap_chain_plan, k)
        /\ IF Panics(create_swap_chain_plan, k)
           THEN UNCHANGED <<stack, d3d>>
           ELSE /\ d3d' = [d3d EXCEPT !.swap_chain = TRUE, !.bbSize = Top.size]
                /\ stack' = Goto("create_views")
    /\ UNCHANGED <<ret, wndClass, registry, os, locks, client, msgCount>>

\* d3d11.rs:118-161
create_views_plan ==
    << Call("GetBuffer", "panic"), Call("CreateRenderTargetView", "panic"),
       Call("CreateTexture2D", "panic"), Call("CreateDepthStencilView", "panic") >>

\* d3d11.rs:36,43-44 and 350-352: the views made for the swap chain's current buffers
ViewsCreated(d, size) ==
    [d EXCEPT !.rtv = Some(d.bufGen), !.dsv = Some(d.bufGen), !.dsSize = size]

D3d11Renderer_create_views ==
    /\ status = "running"
    /\ Top.fn \in {"D3dNew", "on_resize"}
    /\ Top.pc = "create_views"
    /\ \E k \in 0..Len(create_views_plan) :
        /\ CanFail(create_views_plan, k)
        /\ log' = log \o Entries(create_views_plan, k)
        /\ status' = StatusAfter(create_views_plan, k)
        /\ IF Panics(create_views_plan, k)
           THEN UNCHANGED <<stack, d3d>>
           ELSE /\ d3d' = ViewsCreated(d3d, Top.size)
                /\ stack' = Goto("bind")
    /\ UNCHANGED <<ret, wndClass, registry, os, locks, client, msgCount>>

\* d3d11.rs:163-168 and 176-189, called at 37-38 and 354-355
bind_plan == << Call("OMSetRenderTargets", "void"), Call("RSSetViewports", "void") >>

D3d11Renderer_bind_render_target_set_viewport ==
    /\ status = "running"
    /\ Top.fn \in {"D3dNew", "on_resize"}
    /\ Top.pc = "bind"
    /\ IF d3d.rtv.some /\ d3d.dsv.some
       THEN /\ log' = log \o Entries(bind_plan, 0)
            /\ d3d' = [d3d EXCEPT !.omBound = TRUE, !.vpSize = Top.size]
            /\ stack' = Pop
            /\ status' = status
       ELSE /\ log' = Append(log, [api |-> "Option::unwrap", ok |-> FALSE, n |-> 0])
            /\ status' = "panicked"
            /\ UNCHANGED <<stack, d3d>>
    /\ UNCHANGED <<ret, wndClass, registry, os, locks, client, msgCount>>

\* the views are still held when ResizeBuffers is called
ViewsKept(d) == d

\* d3d11.rs:343-344
ViewsDropped(d) == [d EXCEPT !.rtv = None, !.dsv = None]

D3d11Renderer_on_resize_drop_views ==
    /\ Running("on_resize", "drop_views")
    /\ d3d' = ViewsDropped(d3d)
    /\ stack' = Goto("ResizeBuffers")
    /\ UNCHANGED <<status, ret, wndClass, registry, os, locks, client, log, msgCount>>

\* the result of ResizeBuffers is not looked at
ResizeBuffers_unchecked_plan == << Call("ResizeBuffers", "ignore") >>

\* d3d11.rs:346-348
ResizeBuffers_plan == << Call("ResizeBuffers", "panic") >>

D3d11Renderer_on_resize_ResizeBuffers ==
    /\ Running("on_resize", "ResizeBuffers")
    /\ \E k \in 0..Len(ResizeBuffers_plan) :
        /\ CanFail(ResizeBuffers_plan, k)
        /\ log' = log \o Entries(ResizeBuffers_plan, k)
        /\ status' = StatusAfter(ResizeBuffers_plan, k)
        /\ IF Panics(ResizeBuffers_plan, k)
           THEN UNCHANGED <<stack, d3d>>
           ELSE /\ d3d' = IF Succeeded(ResizeBuffers_plan, k, "ResizeBuffers")
                          THEN [d3d EXCEPT !.bbSize = Top.size, !.bufGen = @ + 1]
                          ELSE d3d
                /\ stack' = Goto("create_views")
    /\ UNCHANGED <<ret, wndClass, registry, os, locks, client, msgCount>>

\* d3dutil.rs:8-31: the compiled file if it can be read, else a compilation
create_shader_from_file(stage, csoRead) ==
    IF csoRead
    THEN << Call("D3DReadFileToBlob." \o stage, "fallback") >>
    ELSE << Failed("D3DReadFileToBlob." \o stage, "fallback"),
            Call("D3DCompileFromFile." \o stage, "panic") >>

\* d3d11.rs:206-249
load_hlsl_plan(vsRead, psRead) ==
    create_shader_from_file("vs", vsRead)
    \o << Call("CreateVertexShader", "panic"), Call("CreateInputLayout", "panic") >>
    \o create_shader_from_file("ps", psRead)
    \o << Call("CreatePixelShader", "panic") >>

\* render that loads the shaders before it creates the vertex buffer
render_shaders_first_plan(vsRead, psRead) ==
    load_hlsl_plan(vsRead, psRead)
    \o << Call("CreateBuffer", "panic") >>
    \o << Call("IASetVertexBuffers", "void"), Call("IASetPrimitiveTopology", "void"),
          Call("IASetInputLayout", "void"), Call("VSSetShader", "void"),
          Call("PSSetShader", "void") >>

\* d3d11.rs:251-326
render_plan(vsRead, psRead) ==
    << Call("CreateBuffer", "panic") >>
    \o load_hlsl_plan(vsRead, psRead)
    \o << Call("IASetVertexBuffers", "void"), Call("IASetPrimitiveTopology", "void"),
          Call("IASetInputLayout", "void"), Call("VSSetShader", "void"),
          Call("PSSetShader", "void") >>

D3d11Renderer_render ==
    /\ Running("render", "start")
    /\ \E vsRead \in BOOLEAN, psRead \in BOOLEAN :
        LET plan == render_plan(vsRead, psRead)
        IN \E k \in 0..Len(plan) :
            /\ CanFail(plan, k)
            /\ log' = log \o Entries(plan, k)
            /\ status' = StatusAfter(plan, k)
            /\ IF Panics(plan, k)
               THEN UNCHANGED <<stack, d3d>>
               ELSE /\ d3d' = [d3d EXCEPT !.pipeline = TRUE]
                    /\ stack' = Pop
    /\ UNCHANGED <<ret, wndClass, registry, os, locks, client, msgCount>>

\* d3d11.rs:336  Draw(3, 0)
DrawVertexCount == 3

\* d3d11.rs:328-339
draw_scene_plan(d) ==
    << IF d.rtv.some THEN Call("ClearRenderTargetView", "void")
                     ELSE Failed("Option::unwrap", "panic"),
       IF d.dsv.some THEN Call("ClearDepthStencilView", "void")
                     ELSE Failed("Option::unwrap", "panic"),
       CallN("Draw", "void", DrawVertexCount),
       Call("Present", "ignore") >>

D3d11Renderer_draw_scene ==
    /\ Running("draw_scene", "start")
    /\ LET plan == draw_scene_plan(d3d)
       IN \E k \in 0..Len(plan) :
            /\ CanFail(plan, k)
            /\ log' = log \o Entries(plan, k)
            /\ status' = StatusAfter(plan, k)
            /\ stack' = IF Panics(plan, k) THEN stack ELSE Pop
    /\ UNCHANGED <<ret, wndClass, registry, os, locks, client, d3d, msgCount>>

(***************************************************************************)
(* main  (main.rs:14-42) after the window is built                         *)
(***************************************************************************)
\* main.rs:25  window.get_position()  (window.rs:107-113)
get_position_plan == << Call("GetWindowRect", "panic") >>

main_get_position ==
    /\ Running("main", "get_position")
    /\ \E k \in 0..Len(get_position_plan) :
        /\ CanFail(get_position_plan, k)
        /\ log' = log \o Entries(get_position_plan, k)
        /\ status' = StatusAfter(get_position_plan, k)
        /\ stack' = IF Panics(get_position_plan, k) THEN stack ELSE Goto("show")
    /\ UNCHANGED <<ret, wndClass, registry, os, locks, client, d3d, msgCount>>

\* window.rs:94  ShowWindow sends the window its size
Window_show_ShowWindow ==
    /\ Running("main", "show")
    /\ log' = Append(log, [api |-> "ShowWindow", ok |-> TRUE, n |-> 0])
    /\ stack' = CallFrom("UpdateWindow",
                    [MsgFrame(wins[mainWin].hwnd, "WM_SIZE",
                              MAKELPARAM(d3d.bbSize.width, d3d.bbSize.height))
                        EXCEPT !.mark = Len(log')])
    /\ UNCHANGED <<status, ret, wndClass, registry, os, locks, client, d3d, msgCount>>

\* window.rs:95  UpdateWindow sends WM_PAINT; its result is discarded
Window_show_UpdateWindow ==
    /\ Running("main", "UpdateWindow")
    /\ \E ok \in BOOLEAN :
        /\ log' = Append(log, [api |-> "UpdateWindow", ok |-> ok, n |-> 0])
        /\ stack' = IF ok
                    THEN CallFrom("render", [MsgFrame(wins[mainWin].hwnd, "WM_PAINT", 0)
                                                EXCEPT !.mark = Len(log')])
                    ELSE Goto("render")
    /\ UNCHANGED <<status, ret, wndClass, registry, os, locks, client, d3d, msgCount>>

(***************************************************************************)
(* The renderer's RwLock: main.rs:30-31 in main and 37-39 in the WM_SIZE   *)
(* handler.  Each guard is a temporary of its statement.                   *)
(***************************************************************************)
\* window.rs:375-381
HIWORD(x) == (x \div 65536) % 65536
LOWORD(x) == x % 65536
\* lparam.0 as u32: the low 32 bits, which for the LPARAMs of the model
\* (0 <= x < 2^31, MAKELPARAM of two small dimensions) are all of x
AsU32(x) == IF x >= 0 THEN x ELSE x + 2147483647 + 2147483647 + 2

\* main.rs:35-36
handler_width(lparam) == LOWORD(AsU32(lparam))
handler_height(lparam) == LOWORD(AsU32(lparam))

\* the guard is bound to a variable that outlives the statement
GuardBoundToLocal == TRUE

\* whether the guard a statement took is still held after the statement
GuardHeldAfterStatement == FALSE

\* main.rs:37  d3d11_clone.write().unwrap().on_resize(pos, Size{..})
d3d11_write_on_resize ==
    /\ Running("resize_handler", "start")
    /\ d3dReaders = 0 /\ ~d3dWriter
    /\ d3dWriter' = TRUE
    /\ stack' = CallFrom("on_resize_done",
                    [Frame("on_resize", "drop_views")
                        EXCEPT !.size = Size(handler_width(Top.lp), handler_height(Top.lp)),
                               !.lp = Top.lp])
    /\ UNCHANGED <<status, ret, wndClass, registry, os, regReaders, regWriter, cbLocked,
                   d3dReaders, client, d3d, log, msgCount>>

d3d11_write_release ==
    /\ Running("resize_handler", "on_resize_done")
    /\ d3dWriter' = GuardHeldAfterStatement
    /\ stack' = Goto("render")
    /\ UNCHANGED <<status, ret, wndClass, registry, os, regReaders, regWriter, cbLocked,
                   d3dReaders, client, d3d, log, msgCount>>

\* main.rs:30 and 38  d3d11.read().unwrap().render()
d3d11_read_render ==
    /\ status = "running"
    /\ Top.fn \in {"main", "resize_handler"}
    /\ Top.pc = "render"
    /\ ~d3dWriter
    /\ d3dReaders' = d3dReaders + 1
    /\ stack' = CallFrom("render_done", Frame("render", "start"))
    /\ UNCHANGED <<status, ret, wndClass, registry, os, regReaders, regWriter, cbLocked,
                   d3dWriter, client, d3d, log, msgCount>>

d3d11_read_render_release ==
    /\ status = "running"
    /\ Top.fn \in {"main", "resize_handler"}
    /\ Top.pc = "render_done"
    /\ d3dReaders' = IF GuardHeldAfterStatement THEN d3dReaders ELSE d3dReaders - 1
    /\ stack' = Goto("draw")
    /\ UNCHANGED <<status, ret, wndClass, registry, os, regReaders, regWriter, cbLocked,
                   d3dWriter, client, d3d, log, msgCount>>

\* main.rs:31 and 39  d3d11.read().unwrap().draw_scene()
d3d11_read_draw_scene ==
    /\ status = "running"
    /\ Top.fn \in {"main", "resize_handler"}
    /\ Top.pc = "draw"
    /\ ~d3dWriter
    /\ d3dReaders' = d3dReaders + 1
    /\ stack' = CallFrom("draw_done", Frame("draw_scene", "start"))
    /\ UNCHANGED <<status, ret, wndClass, registry, os, regReaders, regWriter, cbLocked,
                   d3dWriter, client, d3d, log, msgCount>>

\* the statement ends; in the handler the closure ends with it
d3d11_read_draw_scene_release ==
    /\ status = "running"
    /\ Top.fn \in {"main", "resize_handler"}
    /\ Top.pc = "draw_done"
    /\ d3dReaders' = IF GuardHeldAfterStatement THEN d3dReaders ELSE d3dReaders - 1
    /\ stack' = IF Top.fn = "main" THEN Goto("add_handler") ELSE Pop
    /\ UNCHANGED <<status, ret, wndClass, registry, os, regReaders, regWriter, cbLocked,
                   d3dWriter, client, d3d, log, msgCount>>

\* main.rs:34-40  window.add_handler(EventHandler::new(WM_SIZE, ..))
main_add_handler ==
    /\ Running("main", "add_handler")
    /\ add_handler(mainWin, [msg |-> "WM_SIZE", kind |-> "resize", id |-> 0])
    /\ stack' = Goto("msg_loop")
    /\ UNCHANGED <<status, ret, wndClass, window_instances, os, locks, client, d3d, log,
                   msgCount>>

(***************************************************************************)
(* WndClass::msg_loop  (window.rs:313-321)                                 *)
(***************************************************************************)
QueueMsgs == {"WM_SIZE", "WM_PAINT", "WM_CLOSE", "WM_SYSCOMMAND"}
MsgBound == IF Program = "main" THEN MaxMsgs ELSE MaxClientMsgs

\* One GetMessageW: it returns a message for one of the thread's windows,
\* which DispatchMessageW hands to the window procedure, or, once a quit
\* message is posted, it may return 0: the loop ends and msg_loop returns.
WndClass_msg_loop ==
    /\ status = "running"
    /\ Top.fn \in {"main", "client"}
    /\ Top.pc = "msg_loop"
    /\ \/ /\ msgCount < MsgBound
          /\ \E h \in osWindows, m \in QueueMsgs, lp \in SizeLParams \cup {0} :
              /\ (m = "WM_SIZE") <=> (lp # 0)
              /\ stack' = Append(stack, [MsgFrame(h, m, lp) EXCEPT !.mark = 0])
          /\ log' = << >>
          /\ msgCount' = msgCount + 1
          /\ ret' = NoRet
          /\ UNCHANGED status
       \/ /\ quitPosted
          /\ status' = "exited"
          /\ stack' = Goto("returned")
          /\ UNCHANGED <<ret, log, msgCount>>
    /\ UNCHANGED <<wndClass, registry, os, locks, client, d3d>>

\* what window.rs does, whoever calls it
Library ==
    \/ WndClass_init
    \/ WindowBuilder_build
    \/ Window_new_CreateWindowExW
    \/ Window_new_created
    \/ Window_new_failed
    \/ Window_new_insert
    \/ WndClass_wnd_proc_WM_NCCREATE
    \/ WndClass_wnd_proc_route
    \/ WndClass_wnd_proc_WM_NCDESTROY
    \/ WndClass_wnd_proc_remove
    \/ Window_wnd_proc_lock
    \/ Window_wnd_proc_iter
    \/ Window_wnd_proc_match
    \/ DefWindowProcW
    \/ DefWindowProcW_send
    \/ WndClass_msg_loop

Next ==
    \/ Library
    \/ main_build_unwrap
    \/ D3d11Renderer_create_device_context
    \/ D3d11Renderer_new_get_position_size
    \/ D3d11Renderer_create_swap_chain
    \/ D3d11Renderer_create_views
    \/ D3d11Renderer_bind_render_target_set_viewport
    \/ D3d11Renderer_on_resize_drop_views
    \/ D3d11Renderer_on_resize_ResizeBuffers
    \/ D3d11Renderer_render
    \/ D3d11Renderer_draw_scene
    \/ main_get_position
    \/ Window_show_ShowWindow
    \/ Window_show_UpdateWindow
    \/ d3d11_write_on_resize
    \/ d3d11_write_release
    \/ d3d11_read_render
    \/ d3d11_read_render_release
    \/ d3d11_read_draw_scene
    \/ d3d11_read_draw_scene_release
    \/ main_add_handler

MainInit == Init /\ Program = "main"

Spec == MainInit /\ [][Next]_vars

(***************************************************************************)
(* The thread waits for a lock that a frame below it on its own stack      *)
(* holds: it waits for ever.                                               *)
(***************************************************************************)
Blocked ==
    /\ status = "running"
    /\ \/ Top.fn = "wnd_proc" /\ Top.pc = "remove" /\ (regReaders > 0 \/ regWriter)
       \/ Top.fn = "wnd_proc" /\ Top.pc = "entry"
            /\ Top.msg \notin {"WM_NCCREATE", "WM_NCDESTROY"} /\ regWriter
       \/ Top.fn = "new" /\ Top.pc = "insert" /\ (regReaders > 0 \/ regWriter)
       \/ Top.fn = "wnd_proc" /\ Top.pc = "W_lock" /\ Top.obj \in cbLocked
       \/ Top.fn = "resize_handler" /\ Top.pc = "start" /\ (d3dReaders > 0 \/ d3dWriter)
       \/ Top.fn \in {"main", "resize_handler"} /\ Top.pc \in {"render", "draw"} /\ d3dWriter

LibInit == Init /\ Program = "client"

LibNext ==
    \/ Library
    \/ Client_build_ret
    \/ Client_drop
    \/ Client_add_handler
    \/ Client_msg_loop
    \/ probe_handler

LibSpec == LibInit /\ [][LibNext]_vars

(***************************************************************************)
(* Properties.                                                             *)
(***************************************************************************)
Frames(fn) == {i \in DOMAIN stack : stack[i].fn = fn}
Halted == status = "panicked" \/ Blocked

\* C1: once the OS has begun to destroy a window (WM_DESTROY or WM_NCDESTROY
\* has been delivered to WndClass::wnd_proc for its handle), the process
\* reaches a state in which window_instances no longer holds the handle: so
\* when the thread can go no further, by a panic or by waiting for a lock it
\* holds itself, the handle of a window under destruction is not registered.
C1_EntryErasedOnDestruction ==
    \A i \in Frames("wnd_proc") :
        (stack[i].msg \in {"WM_DESTROY", "WM_NCDESTROY"} /\ Halted)
            => stack[i].hwnd \notin DOMAIN window_instances

\* C2: whenever draw_scene runs, both views are present and were created
\* by create_views for the buffers of the most recent ResizeBuffers;
\* on_resize has dropped both views when it calls ResizeBuffers.
C2_ViewsRebuiltBeforeDraw ==
    /\ \A i \in Frames("draw_scene") :
        /\ d3d.rtv.some /\ d3d.dsv.some
        /\ d3d.rtv.gen = d3d.bufGen /\ d3d.dsv.gen = d3d.bufGen
    /\ \A i \in Frames("on_resize") :
        stack[i].pc = "ResizeBuffers" => (~d3d.rtv.some /\ ~d3d.dsv.some)

\* a draw after the second resize
C2_Witness ==
    /\ Frames("draw_scene") # {}
    /\ d3d.bufGen = 2

\* C3: whenever Window::wnd_proc, or a handler it invokes, runs for a
\* message addressed to handle h, the Window object is the one whose hwnd
\* field is h, and the handler is one registered with that object.
C3_RoutedToOwnWindow ==
    /\ \A i \in Frames("wnd_proc") :
        stack[i].obj # NoObj => wins[stack[i].obj].hwnd = stack[i].hwnd
    /\ \A i \in Frames("probe") \cup Frames("resize_handler") :
        /\ wins[stack[i].obj].hwnd = stack[i].hwnd
        /\ \E j \in DOMAIN wins[stack[i].obj].callbacks :
            /\ wins[stack[i].obj].callbacks[j].id = stack[i].idx
            /\ wins[stack[i].obj].callbacks[j].msg = stack[i].msg

\* a handler runs for one window while another live window has a handler
\* for the same message
C3_Witness ==
    /\ Top.fn = "probe"
    /\ \E o \in DOMAIN wins :
        /\ o # Top.obj
        /\ Alive(o)
        /\ wins[o].hwnd \in DOMAIN window_instances
        /\ \E j \in DOMAIN wins[o].callbacks : wins[o].callbacks[j].msg = Top.msg

HandlerIds(hwnd) ==
    IF hwnd \in DOMAIN window_instances
    THEN LET cbs == wins[window_instances[hwnd].obj].callbacks
         IN {cbs[j].id : j \in DOMAIN cbs}
    ELSE {}

C5_RegistryPopulatedOnCreation ==
    (status = "running" /\ Top.fn \in {"main", "client"} /\ Top.pc = "build_ret") =>
        IF ret.ok
        THEN /\ ret.hwnd \in DOMAIN window_instances
             /\ window_instances[ret.hwnd].obj = ret.obj
             /\ wins[ret.obj].hwnd = ret.hwnd
             /\ DOMAIN window_instances = DOMAIN regAtBuild \cup {ret.hwnd}
             /\ \A h \in DOMAIN regAtBuild \ {ret.hwnd} :
                    window_instances[h] = regAtBuild[h]
        ELSE window_instances = regAtBuild

\* a second window has been created
C5_Witness ==
    /\ Top.fn = "client"
    /\ Top.pc = "build_ret"
    /\ ret.ok
    /\ regAtBuild # EmptyMap

\* the native calls that show on_resize, render and draw_scene
RedrawCalls ==
    {"ResizeBuffers", "CreateBuffer", "ClearRenderTargetView", "ClearDepthStencilView",
     "Draw", "Present"}

\* the calls of the set S made since the log was mark long, in order
ApisSince(mark, S) ==
    LET s == SelectSeq(SubSeq(log, mark + 1, Len(log)), LAMBDA e : e.api \in S)
    IN [j \in DOMAIN s |-> s[j].api]

HasResizeHandler(o) ==
    \E j \in DOMAIN wins[o].callbacks : wins[o].callbacks[j].kind = "resize"

\* the window procedure has run the handlers of a WM_SIZE for the window
\* that has the resize handler
ResizeHandled(i) ==
    /\ stack[i].fn = "wnd_proc"
    /\ stack[i].msg = "WM_SIZE"
    /\ stack[i].pc \in {"W_match", "def", "def_send"}
    /\ stack[i].obj # NoObj
    /\ HasResizeHandler(stack[i].obj)

\* C6: when the window procedure has run the handlers of a WM_SIZE message
\* delivered after the resize handler was registered, and so when it
\* returns, the native calls made for that message are those of exactly
\* one on_resize, then one render, then one draw_scene: ResizeBuffers,
\* CreateBuffer, the two clears, one Draw of 3 vertices and Present.
C6_ResizeRedrawsOnce ==
    \A i \in DOMAIN stack :
        ResizeHandled(i) =>
            /\ ApisSince(stack[i].mark, RedrawCalls) =
                  << "ResizeBuffers", "CreateBuffer", "ClearRenderTargetView",
                     "ClearDepthStencilView", "Draw", "Present" >>
            /\ \A j \in (stack[i].mark + 1)..Len(log) :
                  log[j].api = "Draw" => log[j].n = 3

\* the window procedure is about to return for a WM_SIZE that arrived,
\* inside DefWindowProcW, while another message was being dispatched
C6_Witness ==
    /\ ResizeHandled(Len(stack))
    /\ Top.pc = "def_send"
    /\ Top.sends = << >>
    /\ Len(stack) = 3

\* C7: at most one guard of the renderer's RwLock is held, and whenever the
\* thread is about to take one (the write in the handler, the reads in main
\* and in the handler) no guard of that lock is held, so it does not wait.
C7_OneRendererGuard ==
    /\ d3dReaders + (IF d3dWriter THEN 1 ELSE 0) <= 1
    /\ (/\ status = "running"
        /\ \/ Top.fn = "resize_handler" /\ Top.pc = "start"
           \/ Top.fn \in {"main", "resize_handler"} /\ Top.pc \in {"render", "draw"})
            => (d3dReaders = 0 /\ ~d3dWriter)

\* the handler is about to take the first read guard after its write guard
C7_Witness ==
    /\ Running("resize_handler", "render")
    /\ Len(stack) = 4

\* native calls whose failure the program does not look at
IgnoredFailures == {"RegisterClassW", "UpdateWindow", "Present"}
\* native calls whose failure selects the other way to get the shader
ReadCompiled == {"D3DReadFileToBlob.vs", "D3DReadFileToBlob.ps"}
CompileAfter(api) ==
    IF api = "D3DReadFileToBlob.vs" THEN "D3DCompileFromFile.vs"
                                    ELSE "D3DCompileFromFile.ps"
\* a failed native call (Option::unwrap is a check of the program's own)
FailedCalls == {j \in DOMAIN log : ~log[j].ok /\ log[j].api # "Option::unwrap"}

\* C8 as the specification states it: every failed native call is the last
\* thing the program did, and the program has aborted.
C8_EveryFailureAborts ==
    \A j \in FailedCalls : j = Len(log) /\ status = "panicked"

\* C8: a failed native call aborts the program at that call, with these
\* exceptions: the results of RegisterClassW, UpdateWindow and Present are
\* not looked at and the program goes on; a failed D3DReadFileToBlob is
\* followed by D3DCompileFromFile of the same shader; a failed
\* CreateWindowExW is returned as Err, and main aborts on it before it
\* makes another native call.
C8_FailuresAbortOrTolerated ==
    \A j \in FailedCalls :
        CASE log[j].api \in IgnoredFailures -> TRUE
          [] log[j].api \in ReadCompiled ->
                j < Len(log) /\ log[j + 1].api = CompileAfter(log[j].api)
          [] log[j].api = "CreateWindowExW" ->
                /\ j = Len(log)
                /\ \/ status = "panicked"
                   \/ Running("main", "build_ret") /\ ~ret.ok
          [] OTHER -> j = Len(log) /\ status = "panicked"

\* the program aborted at a failed call after it went on from another
C8_Witness ==
    /\ status = "panicked"
    /\ Len(log) \in FailedCalls
    /\ log[Len(log)].api \notin IgnoredFailures \cup ReadCompiled
    /\ \E j \in FailedCalls : j < Len(log)

\* the steps of the pipeline, by the native calls that make them
WindowStep == {"CreateWindowExW"}
DeviceStep == {"D3D11CreateDevice"}
SwapChainStep == {"CreateSwapChainForHwnd", "ResizeBuffers"}
ViewsStep == {"CreateRenderTargetView", "CreateDepthStencilView"}
ShadersStep ==
    {"D3DReadFileToBlob.vs", "D3DCompileFromFile.vs", "CreateVertexShader",
     "D3DReadFileToBlob.ps", "D3DCompileFromFile.ps", "CreatePixelShader"}
UploadStep == {"CreateBuffer"}
DrawStep == {"ClearRenderTargetView", "ClearDepthStencilView", "Draw", "Present"}

Made_calls(step) == {j \in DOMAIN log : log[j].api \in step}
\* every call of step a made since start-up, or since the message being
\* dispatched was taken from the queue, precedes every call of step b
Precedes(a, b) == \A i \in Made_calls(a), j \in Made_calls(b) : i < j

\* C9 as the specification states it: window, then device, swap chain and
\* views, then the shaders, then the upload of the vertex buffer, then
\* clear/draw/present, at start-up and in each redraw.
C9_ShadersThenUpload ==
    /\ Precedes(WindowStep, DeviceStep)
    /\ Precedes(DeviceStep, SwapChainStep)
    /\ Precedes(SwapChainStep, ViewsStep)
    /\ Precedes(ViewsStep, ShadersStep)
    /\ Precedes(ShadersStep, UploadStep)
    /\ Precedes(UploadStep, DrawStep)

\* C9: start-up is one linear pipeline in this order: the window, then the
\* device, the swap chain and the views, then the upload of the vertex
\* buffer, then the two shaders, then clear/draw/present; the redraw after
\* a resize has the same order from the swap chain (ResizeBuffers) on; and
\* when main registers the resize handler every step has been made.
C9_UploadThenShaders ==
    /\ Precedes(WindowStep, DeviceStep)
    /\ Precedes(DeviceStep, SwapChainStep)
    /\ Precedes(SwapChainStep, ViewsStep)
    /\ Precedes(ViewsStep, UploadStep)
    /\ Precedes(UploadStep, ShadersStep)
    /\ Precedes(ShadersStep, DrawStep)
    /\ Running("main", "add_handler") =>
        \A step \in {WindowStep, DeviceStep, SwapChainStep, ViewsStep, UploadStep,
                     ShadersStep, DrawStep} : Made_calls(step) # {}

\* a redraw after a resize has presented its frame
C9_Witness ==
    /\ Running("resize_handler", "draw_done")
    /\ \A step \in {SwapChainStep, ViewsStep, UploadStep, ShadersStep, DrawStep} :
            Made_calls(step) # {}

\* C10: when on_resize has returned to the handler of a WM_SIZE whose lparam
\* has the client width in its low word and the client height in its high
\* word, the swap-chain buffers, the depth-stencil texture and the viewport
\* have that width and that height.
C10_SurfaceHasClientSize ==
    Running("resize_handler", "on_resize_done") =>
        LET client_size == Size(LOWORD(Top.lp), HIWORD(Top.lp))
        IN /\ d3d.bbSize = client_size
           /\ d3d.dsSize = client_size
           /\ d3d.vpSize = client_size

\* C11: the thread never requests the write lock of window_instances (the
\* WM_NCDESTROY arm) while a read guard of an outer WndClass::wnd_proc
\* dispatch is held, and never requests the write lock of a Window's
\* callbacks while that lock's write guard is held.
C11_NoSelfDeadlock ==
    /\ Running("wnd_proc", "remove") => (regReaders = 0 /\ ~regWriter)
    /\ Running("wnd_proc", "W_lock") => Top.obj \notin cbLocked

\* the ids of the handlers among the first n of cbs whose msg is msg, in the
\* order they were added
RECURSIVE MatchingIds(_, _, _)
MatchingIds(cbs, n, msg) ==
    IF n = 0 THEN << >>
    ELSE IF cbs[n].msg = msg
         THEN Append(MatchingIds(cbs, n - 1, msg), cbs[n].id)
         ELSE MatchingIds(cbs, n - 1, msg)

\* the handlers that have run since the log was mark long, by id, in order
HandlersRun(mark) ==
    LET s == SelectSeq(SubSeq(log, mark + 1, Len(log)), LAMBDA e : e.api = "probe")
    IN [j \in DOMAIN s |-> s[j].n]

\* C12: while Window::wnd_proc loops over the handlers, those that have run
\* for the message are exactly the handlers with the message's code among
\* the ones visited so far, each once, in the order they were added; when
\* the loop has ended, and the built-in processing begins, they are all the
\* handlers with that code; the quit of WM_DESTROY comes after them.
C12_HandlersOnceInOrder ==
    \A i \in Frames("wnd_proc") :
        LET f == stack[i]
            cbs == wins[f.obj].callbacks
            running == i < Len(stack) /\ stack[i + 1].fn = "probe"
        IN /\ f.pc = "W_iter" =>
                /\ HandlersRun(f.mark) =
                      MatchingIds(cbs, IF running THEN f.idx - 2 ELSE f.idx - 1, f.msg)
                /\ \A j \in (f.mark + 1)..Len(log) : log[j].api = "probe"
           /\ f.pc = "W_match" =>
                /\ SubSeq(HandlersRun(f.mark), 1, Len(MatchingIds(cbs, Len(cbs), f.msg)))
                      = MatchingIds(cbs, Len(cbs), f.msg)
                /\ i = Len(stack) =>
                      /\ HandlersRun(f.mark) = MatchingIds(cbs, Len(cbs), f.msg)
                      /\ \A j \in (f.mark + 1)..Len(log) :
                            log[j].api # "probe" =>
                                /\ log[j].api = "PostQuitMessage"
                                /\ j = Len(log)

\* the loop has ended for a message for which two handlers ran
C12_Witness ==
    /\ Running("wnd_proc", "W_match")
    /\ Len(HandlersRun(Top.mark)) = 2

\* the messages by which the OS destroys a window
DestroyMsgs == {"WM_CLOSE", "WM_DESTROY", "WM_NCDESTROY"}

\* C13: while the only registered window is being closed and destroyed, the
\* process has neither aborted nor come to wait for a lock it holds itself,
\* so that the quit message can be posted and msg_loop can return to main.
C13_CloseEndsNormally ==
    \A i \in Frames("wnd_proc") :
        (/\ stack[i].msg \in DestroyMsgs
         /\ DOMAIN window_instances = {stack[i].hwnd})
            => ~Halted

\* the quit messages posted since the log was mark long
QuitsSince(mark) ==
    {j \in (mark + 1)..Len(log) : log[j].api = "PostQuitMessage"}

\* C14: a quit message is posted for the destruction of a window only if
\* that window is the last one: while a window is being destroyed and
\* another window is registered, no quit message has been posted for the
\* destruction.
C14_QuitIffLastWindow ==
    \A i \in Frames("wnd_proc") :
        (stack[i].msg \in {"WM_DESTROY", "WM_NCDESTROY"}
            /\ QuitsSince(stack[i].mark) # {})
            => DOMAIN window_instances \subseteq {stack[i].hwnd}

====
